---- MODULE Spec2Model ----
(***************************************************************************)
(* Model of src/src/resolve.rs: the two resolvers `one` and `multiple`.    *)
(* Each opens a discovery session, listens to its stream of results and    *)
(* races the search loop against async_std::future::timeout.               *)
(***************************************************************************)
EXTENDS Naturals, Sequences, FiniteSets

\* ------------------------------------------------------------------ bounds
MaxItems == 3      \* results the discovery stream emits in one call
MaxHosts == 2      \* length of host_names passed to `multiple`
MaxTimeout == 2    \* timeout, in clock ticks

\* ------------------------------------------------------------------ values
\* Two hostnames that differ only in case: comparison is exact string equality.
Names == {"a", "A"}
NoHost == "<none>"

\* What `stream.next().await` can yield: Some(Ok(response)) with the
\* response's optional hostname, Some(Err(_)), or None (the stream ended).
Item(n, k, h) == [id |-> n, kind |-> k, hostname |-> h]

StreamItems(n) ==
    {Item(n, "Ok", h) : h \in Names \cup {NoHost}}
        \cup {Item(n, "Err", NoHost), Item(n, "End", NoHost)}

HostSeqs == UNION {[1..n -> Names] : n \in 0..MaxHosts}

Timeouts == 1..MaxTimeout

Pending == [kind |-> "Pending", val |-> <<>>]
OkSome(r) == [kind |-> "OkSome", val |-> <<r>>]
OkNone == [kind |-> "OkNone", val |-> <<>>]
OkVec(v) == [kind |-> "OkVec", val |-> v]
ErrOpen == [kind |-> "ErrOpen", val |-> <<>>]
ErrTimeout == [kind |-> "ErrTimeout", val |-> <<>>]

VARIABLES
    pc,            \* Idle, SessionOpen, Listening, Completed, TimedOut, Closed
    op,            \* "one" or "multiple"
    host_name,     \* `one`: the requested host
    host_names,    \* `multiple`: the requested hosts
    timeout,       \* the caller's timeout
    interval,      \* the re-query interval given to discover::all
    inbox,         \* results the stream has ready, not yet taken by next()
    nEmitted,      \* number of results the stream has emitted
    onTime,        \* how many of them were emitted while the search was running
    ended,         \* the stream has yielded None
    processed,     \* results the loop has taken, in order
    found,         \* `multiple`: the accumulator
    outcome,       \* what the `process` future resolved to
    result,        \* what the call returned
    elapsed,       \* ticks since the timeout future was started
    timerStarted,  \* async_std::future::timeout was created
    timerFired,    \* the timeout future resolved to Err(TimeoutError)
    opened,        \* sessions opened by this call
    alive          \* the session (stream) exists

vars == <<pc, op, host_name, host_names, timeout, interval, inbox, nEmitted,
          onTime, ended, processed, found, outcome, result, elapsed, timerStarted,
          timerFired, opened, alive>>

Init ==
    /\ pc = "Idle"
    /\ op = "none"
    /\ host_name = NoHost
    /\ host_names = <<>>
    /\ timeout = 0
    /\ interval = 0
    /\ inbox = <<>>
    /\ nEmitted = 0
    /\ onTime = 0
    /\ ended = FALSE
    /\ processed = <<>>
    /\ found = <<>>
    /\ outcome = Pending
    /\ result = Pending
    /\ elapsed = 0
    /\ timerStarted = FALSE
    /\ timerFired = FALSE
    /\ opened = 0
    /\ alive = FALSE

\* ------------------------------------------------------------------ helpers

\* ASCII lower case of the model's hostnames.
Lower(h) == IF h = "A" THEN "a" ELSE h

\* A variant of Matches that compares without regard to case.
Matches_IgnoreCase(response, host) ==
    /\ response.hostname # NoHost
    /\ Lower(response.hostname) = Lower(host)

\* resolve.rs:42  Some(found_host) if found_host == host_name.as_ref()
Matches(response, host) ==
    /\ response.hostname # NoHost
    /\ response.hostname = host

\* A variant of AnyHost that takes a response without hostname as a match.
AnyHost_NoHostMatches(response, hosts) ==
    \/ response.hostname = NoHost
    \/ \E i \in 1..Len(hosts) : hosts[i] = response.hostname

\* resolve.rs:73  Some(found_host) if host_names.iter().any(|s| s.as_ref() == found_host)
AnyHost(response, hosts) ==
    /\ response.hostname # NoHost
    /\ \E i \in 1..Len(hosts) : hosts[i] = response.hostname

\* A variant of LoopContinues that skips a failed result and goes on.
LoopContinues_SkipsErr(item) == item.kind \in {"Ok", "Err"}

\* resolve.rs:40 / 71  `while let Some(Ok(response))`: the loop goes on only
\* for an Ok item; Some(Err(_)) and None both leave the loop.
LoopContinues(item) == item.kind = "Ok"

\* A variant of FoundAll that never sees the accumulator as complete.
FoundAll_Never(f, hosts) == FALSE

\* A variant of FoundAll that stops one response short.
FoundAll_OneShort(f, hosts) == Len(f) + 1 = Len(hosts)

\* resolve.rs:76  found.len() == host_names.len()
FoundAll(f, hosts) == Len(f) = Len(hosts)

\* A variant of Push that drops a response whose hostname is already held.
Push_Dedup(f, response) ==
    IF \E i \in 1..Len(f) : f[i].hostname = response.hostname
      THEN f
      ELSE Append(f, response)

\* A variant of Push that inserts at the front.
Push_Front(f, response) == <<response>> \o f

\* resolve.rs:74  found.push(response)
Push(f, response) == Append(f, response)

\* A variant of QueryInterval that passes the timeout itself.
QueryInterval_Same(t) == t

\* resolve.rs:36 / 65  timeout * 2
QueryInterval(t) == t * 2

\* A variant of MapOne that turns the timeout into Ok(None).
MapOne_TimeoutIsNone(fired, out) == IF fired THEN OkNone ELSE out

\* resolve.rs:50-52  timeout(..).map_err(|e| e.into()): Ok(v) stays Ok(v),
\* Err(TimeoutError) becomes Err(Error).
MapOne(fired, out) == IF fired THEN ErrTimeout ELSE out

\* A variant of MapMultiple that returns the accumulator on a timeout too.
MapMultiple_TimeoutIsPartial(fired, f) == OkVec(f)

\* resolve.rs:85-88  Ok(()) => Ok(found), Err(e) => Err(e.into())
MapMultiple(fired, f) == IF fired THEN ErrTimeout ELSE OkVec(f)

\* A variant of DeadlineReady where the search is awaited without a deadline.
DeadlineReady_NoTimer == FALSE

\* resolve.rs:50 / 85  async_std's timeout polls the wrapped future first
\* and the delay only when that is pending: the deadline wins only when the
\* delay has elapsed and the stream has nothing ready.
DeadlineReady == elapsed = timeout /\ inbox = <<>>

\* ------------------------------------------------------------------ actions

\* A caller invokes one(service_names, host_name, timeout).
CallOne(h, t) ==
    /\ pc = "Idle"
    /\ pc' = "SessionOpen"
    /\ op' = "one"
    /\ host_name' = h
    /\ timeout' = t
    /\ UNCHANGED <<host_names, interval, inbox, nEmitted, onTime, ended, processed,
                   found, outcome, result, elapsed, timerStarted, timerFired,
                   opened, alive>>

\* A caller invokes multiple(service_names, host_names, timeout).
CallMultiple(hs, t) ==
    /\ pc = "Idle"
    /\ pc' = "SessionOpen"
    /\ op' = "multiple"
    /\ host_names' = hs
    /\ timeout' = t
    /\ UNCHANGED <<host_name, interval, inbox, nEmitted, onTime, ended, processed,
                   found, outcome, result, elapsed, timerStarted, timerFired,
                   opened, alive>>

\* A variant of OpenFail where the failure surfaces only after the stream and
\* the timeout future were set up.
OpenFail_Late ==
    /\ pc = "Listening"
    /\ pc' = "Closed"
    /\ result' = ErrOpen
    /\ alive' = FALSE
    /\ UNCHANGED <<op, host_name, host_names, timeout, interval, inbox,
                   nEmitted, onTime, ended, processed, found, outcome, elapsed,
                   timerStarted, timerFired, opened>>

\* resolve.rs:36 / 65  discover::all(..)? returns Err: the `?` returns it.
OpenFail ==
    /\ pc = "SessionOpen"
    /\ pc' = "Closed"
    /\ result' = ErrOpen
    /\ UNCHANGED <<op, host_name, host_names, timeout, interval, inbox,
                   nEmitted, onTime, ended, processed, found, outcome, elapsed,
                   timerStarted, timerFired, opened, alive>>

\* resolve.rs:36-50 / 65-85  discover::all(..) succeeds, .listen() gives the
\* stream, `found` is created, and the timeout future starts the search.
OpenOk ==
    /\ pc = "SessionOpen"
    /\ pc' = "Listening"
    /\ interval' = QueryInterval(timeout)
    /\ opened' = opened + 1
    /\ alive' = TRUE
    /\ found' = <<>>
    /\ timerStarted' = TRUE
    /\ elapsed' = 0
    /\ UNCHANGED <<op, host_name, host_names, timeout, inbox, nEmitted, onTime, ended,
                   processed, outcome, result, timerFired>>

\* The discovery stream gets its next result ready, while the session exists.
Emit(item) ==
    /\ alive
    /\ ~ended
    /\ nEmitted < MaxItems
    /\ item \in StreamItems(nEmitted + 1)
    /\ inbox' = Append(inbox, item)
    /\ nEmitted' = nEmitted + 1
    /\ onTime' = IF pc = "Listening" /\ ~timerFired THEN onTime + 1 ELSE onTime
    /\ ended' = (item.kind = "End")
    /\ UNCHANGED <<pc, op, host_name, host_names, timeout, interval, processed,
                   found, outcome, result, elapsed, timerStarted, timerFired,
                   opened, alive>>

\* Time passes while the timeout future is pending.
Tick ==
    /\ pc = "Listening"
    /\ elapsed < timeout
    /\ elapsed' = elapsed + 1
    /\ UNCHANGED <<pc, op, host_name, host_names, timeout, interval, inbox,
                   nEmitted, onTime, ended, processed, found, outcome, result,
                   timerStarted, timerFired, opened, alive>>

\* resolve.rs:40-47  one iteration of `one`'s loop.
OneNext ==
    /\ pc = "Listening"
    /\ op = "one"
    /\ inbox # <<>>
    /\ LET item == Head(inbox) IN
        /\ inbox' = Tail(inbox)
        /\ processed' = Append(processed, item)
        /\ IF LoopContinues(item)
             THEN IF Matches(item, host_name)
                    THEN outcome' = OkSome(item) /\ pc' = "Completed"
                    ELSE UNCHANGED <<outcome, pc>>
             ELSE outcome' = OkNone /\ pc' = "Completed"
    /\ UNCHANGED <<op, host_name, host_names, timeout, interval, nEmitted, onTime,
                   ended, found, result, elapsed, timerStarted, timerFired,
                   opened, alive>>

\* resolve.rs:71-82  one iteration of `multiple`'s loop.
MultipleNext ==
    /\ pc = "Listening"
    /\ op = "multiple"
    /\ inbox # <<>>
    /\ LET item == Head(inbox) IN
        /\ inbox' = Tail(inbox)
        /\ processed' = Append(processed, item)
        /\ IF LoopContinues(item)
             THEN IF AnyHost(item, host_names)
                    THEN /\ found' = Push(found, item)
                         /\ IF FoundAll(found', host_names)
                              THEN outcome' = OkVec(<<>>) /\ pc' = "Completed"
                              ELSE UNCHANGED <<outcome, pc>>
                    ELSE UNCHANGED <<found, outcome, pc>>
             ELSE /\ outcome' = OkVec(<<>>)
                  /\ pc' = "Completed"
                  /\ UNCHANGED found
    /\ UNCHANGED <<op, host_name, host_names, timeout, interval, nEmitted, onTime,
                   ended, result, elapsed, timerStarted, timerFired, opened,
                   alive>>

\* A variant of TimerFire that records the deadline but leaves the search
\* loop running.
TimerFire_NoCancel ==
    /\ pc = "Listening"
    /\ DeadlineReady
    /\ ~timerFired
    /\ timerFired' = TRUE
    /\ UNCHANGED <<pc, op, host_name, host_names, timeout, interval, inbox,
                   nEmitted, onTime, ended, processed, found, outcome, result,
                   elapsed, timerStarted, opened, alive>>

\* resolve.rs:50 / 85  the deadline fires: the timeout future resolves to
\* Err(TimeoutError) and the `process` future is dropped.
TimerFire ==
    /\ pc = "Listening"
    /\ DeadlineReady
    /\ pc' = "TimedOut"
    /\ timerFired' = TRUE
    /\ UNCHANGED <<op, host_name, host_names, timeout, interval, inbox,
                   nEmitted, onTime, ended, processed, found, outcome, result, elapsed,
                   timerStarted, opened, alive>>

\* A variant of Return that keeps the session after the call has returned.
Return_KeepsSession ==
    /\ pc \in {"Completed", "TimedOut"}
    /\ pc' = "Closed"
    /\ result' = IF op = "one" THEN MapOne(timerFired, outcome)
                               ELSE MapMultiple(timerFired, found)
    /\ UNCHANGED <<op, host_name, host_names, timeout, interval, inbox,
                   nEmitted, onTime, ended, processed, found, outcome, elapsed,
                   timerStarted, timerFired, opened, alive>>

\* resolve.rs:50-53 / 85-89  the call returns and the stream is dropped.
Return ==
    /\ pc \in {"Completed", "TimedOut"}
    /\ pc' = "Closed"
    /\ result' = IF op = "one" THEN MapOne(timerFired, outcome)
                               ELSE MapMultiple(timerFired, found)
    /\ alive' = FALSE
    /\ UNCHANGED <<op, host_name, host_names, timeout, interval, inbox,
                   nEmitted, onTime, ended, processed, found, outcome, elapsed,
                   timerStarted, timerFired, opened>>

Next ==
    \/ \E h \in Names, t \in Timeouts : CallOne(h, t)
    \/ \E hs \in HostSeqs, t \in Timeouts : CallMultiple(hs, t)
    \/ OpenFail
    \/ OpenOk
    \/ \E item \in StreamItems(nEmitted + 1) : Emit(item)
    \/ Tick
    \/ OneNext
    \/ MultipleNext
    \/ TimerFire
    \/ Return

Spec == Init /\ [][Next]_vars

\* The executor polls a woken task; the timer and the clock make progress.
FairSpec ==
    /\ Spec
    /\ WF_vars(OpenFail \/ OpenOk)
    /\ WF_vars(Tick)
    /\ WF_vars(OneNext)
    /\ WF_vars(MultipleNext)
    /\ WF_vars(TimerFire)
    /\ WF_vars(Return)

TypeOK ==
    /\ pc \in {"Idle", "SessionOpen", "Listening", "Completed", "TimedOut", "Closed"}
    /\ op \in {"none", "one", "multiple"}
    /\ elapsed \in 0..MaxTimeout
    /\ Len(processed) + Len(inbox) = nEmitted
    /\ onTime <= nEmitted
    /\ Len(processed) <= onTime
    /\ opened \in 0..1

\* ------------------------------------------------------------------ claims

\* Everything the stream has emitted, in emission order.
Emitted == processed \o inbox

\* The call went past the session opening and has returned.
Returned == pc = "Closed" /\ result # ErrOpen

\* Positions of Emitted holding an Ok response with the requested hostname.
MatchPositions == {k \in 1..Len(Emitted) :
                     Emitted[k].kind = "Ok" /\ Emitted[k].hostname = host_name}

NoMatchProcessed ==
    \A k \in 1..Len(processed) :
        ~(processed[k].kind = "Ok" /\ processed[k].hostname = host_name)

C3_FirstMatchReturned ==
    (Returned /\ op = "one" /\ \E k \in MatchPositions : k <= onTime)
        => LET k == CHOOSE m \in MatchPositions : \A n \in MatchPositions : m <= n
           IN  result = OkSome(Emitted[k]) /\ Len(processed) = k

\* The last result the loop took was Some(Err(_)) or None.
LastProcessedLeftLoop ==
    /\ processed # <<>>
    /\ processed[Len(processed)].kind # "Ok"

\* C4 (as stated): in both operations a failed result is skipped: after the
\* loop takes an Err item the search is still running, and it can end only
\* by a later result or by the deadline.
C4_FailureSkipped ==
    (processed # <<>> /\ processed[Len(processed)].kind = "Err")
        => /\ pc # "Completed"
           /\ (pc = "Closed" => timerFired)

\* Every requested host has appeared at least once among the processed results.
AllHostsSeen ==
    \A i \in 1..Len(host_names) :
        \E k \in 1..Len(processed) :
            processed[k].kind = "Ok" /\ processed[k].hostname = host_names[i]

\* No processed result was a failure or the end of the stream.
OnlyOkProcessed == \A k \in 1..Len(processed) : processed[k].kind = "Ok"

C6_EmptyHostsReturnsAtOnce ==
    (Returned /\ op = "multiple" /\ host_names = <<>>)
        => (result = OkVec(<<>>) /\ ~timerFired)

C8_OpenFailureImmediate ==
    (result = ErrOpen)
        => /\ pc = "Closed"
           /\ opened = 0 /\ ~alive
           /\ ~timerStarted /\ ~timerFired /\ elapsed = 0
           /\ nEmitted = 0 /\ processed = <<>> /\ found = <<>>
           /\ outcome = Pending

C8_Witness ==
    /\ result = ErrOpen
    /\ pc = "Closed"
    /\ op = "multiple"
    /\ host_names # <<>>

\* C9: in both operations, once the deadline has fired nothing more is
\* processed: the loop took exactly the results emitted while the search was
\* running, every later result stays unprocessed, and neither the
\* accumulator nor the returned value holds a later result.
C9_NothingAfterDeadline ==
    timerFired
        => /\ Len(processed) = onTime
           /\ Len(inbox) = nEmitted - onTime
           /\ \A i \in 1..Len(found) : found[i].id <= onTime
           /\ outcome = Pending
           /\ result \in {Pending, ErrTimeout}

C9_Witness ==
    /\ timerFired
    /\ pc = "Closed"
    /\ op = "one"
    /\ inbox # <<>>
    /\ inbox[1].kind = "Ok" /\ inbox[1].hostname = host_name

C11_AccumulatorBounded ==
    (op = "multiple")
        => /\ Len(found) <= Len(host_names)
           /\ (found # <<>> /\ Len(found) = Len(host_names)) => pc # "Listening"

C11_Witness ==
    /\ op = "multiple"
    /\ Len(host_names) = 2
    /\ Len(found) = 2
    /\ pc = "Completed"
    /\ inbox # <<>>
    /\ inbox[1].kind = "Ok"
    /\ \E i \in 1..Len(host_names) : host_names[i] = inbox[1].hostname

\* C12: in both operations the session is opened with a re-query interval of
\* exactly twice the timeout, which is more than the timeout, so while the
\* session exists the time elapsed stays below the interval: the interval
\* cannot run out before the deadline fires.
C12_IntervalIsDouble ==
    (opened > 0)
        => /\ timeout > 0
           /\ interval = 2 * timeout
           /\ interval > timeout
           /\ elapsed < interval

C12_Witness ==
    /\ opened = 1
    /\ timeout = 2
    /\ interval = 4
    /\ timerFired
    /\ elapsed = timeout

\* The hostnames the call asked for.
Targets ==
    IF op = "one" THEN {host_name}
                  ELSE {host_names[i] : i \in 1..Len(host_names)}

\* A decoded result without hostname, or with a hostname that was not asked for.
Skippable(item) == item.kind = "Ok" /\ item.hostname \notin Targets

NotSkippable(item) == ~Skippable(item)

\* The processed results with the skippable ones removed.
Relevant == SelectSeq(processed, NotSkippable)

\* The search loop has ended by itself (not by the deadline).
LoopDone == pc = "Completed" \/ (Returned /\ ~timerFired)

\* What `one`'s search gives on the results seq, taken from the first one.
RECURSIVE SearchOne(_)
SearchOne(seq) ==
    IF seq = <<>> THEN [done |-> FALSE, out |-> Pending]
    ELSE LET prev == SearchOne(SubSeq(seq, 1, Len(seq) - 1))
             x == seq[Len(seq)]
         IN  IF prev.done THEN prev
             ELSE IF x.kind # "Ok" THEN [done |-> TRUE, out |-> OkNone]
             ELSE IF x.hostname \in Targets THEN [done |-> TRUE, out |-> OkSome(x)]
             ELSE prev

\* What `multiple`'s search gives on the results seq, taken from the first one.
RECURSIVE SearchMultiple(_)
SearchMultiple(seq) ==
    IF seq = <<>> THEN [done |-> FALSE, acc |-> <<>>]
    ELSE LET prev == SearchMultiple(SubSeq(seq, 1, Len(seq) - 1))
             x == seq[Len(seq)]
         IN  IF prev.done THEN prev
             ELSE IF x.kind # "Ok" THEN [done |-> TRUE, acc |-> prev.acc]
             ELSE IF x.hostname \in Targets
                    THEN [done |-> Len(prev.acc) + 1 = Len(host_names),
                          acc |-> Append(prev.acc, x)]
             ELSE prev

\* C13: in both operations a decoded result without hostname, or with a
\* hostname that was not asked for, changes nothing: the accumulator, the
\* end of the search and the value returned are those of the same search run
\* on the processed results with every such result removed, and the search
\* never ends on such a result.
C13_SkippableChangesNothing ==
    (opened > 0)
        => /\ (pc = "Completed") => NotSkippable(processed[Len(processed)])
           /\ (op = "one") =>
                LET r == SearchOne(Relevant)
                IN  /\ LoopDone <=> r.done
                    /\ r.done => outcome = r.out
                    /\ (Returned /\ ~timerFired) => result = r.out
           /\ (op = "multiple") =>
                LET r == SearchMultiple(Relevant)
                IN  /\ LoopDone <=> r.done
                    /\ found = r.acc
                    /\ (Returned /\ ~timerFired) => result = OkVec(r.acc)

C13_Witness ==
    /\ op = "multiple"
    /\ host_names = <<"a">>
    /\ Len(processed) = 3
    /\ processed[1].kind = "Ok" /\ processed[1].hostname = NoHost
    /\ processed[2].kind = "Ok" /\ processed[2].hostname = "A"
    /\ processed[3].kind = "Ok" /\ processed[3].hostname = "a"
    /\ Returned
    /\ result = OkVec(<<processed[3]>>)

\* How many decoded results of seq carry the hostname h.
Count(seq, h) ==
    Cardinality({i \in 1..Len(seq) : seq[i].kind = "Ok" /\ seq[i].hostname = h})

\* C14: `multiple` does not deduplicate: the accumulator holds one entry for
\* every processed announcement of a requested host, repeats included, and
\* the search ends by itself exactly when that number of entries reaches
\* hosts.len(), whether or not every host has appeared (on a stream without
\* failed results that does not end).
C14_NoDeduplication ==
    (op = "multiple" /\ opened > 0)
        => /\ \A h \in Targets : Count(found, h) = Count(processed, h)
           /\ OnlyOkProcessed =>
                (LoopDone <=> (found # <<>> /\ Len(found) = Len(host_names)))

C14_Witness ==
    /\ op = "multiple"
    /\ host_names = <<"a", "A">>
    /\ pc = "Completed"
    /\ Len(processed) = 2
    /\ processed[1].hostname = "a" /\ processed[2].hostname = "a"
    /\ found = processed
    /\ ~AllHostsSeen

\* A decoded result whose hostname was asked for.
InHosts(item) == item.kind = "Ok" /\ item.hostname \in Targets

\* The accumulator is the matching subsequence, and is what Ok(..) carries.
C15_IsMatchingSubsequence ==
    (op = "multiple")
        => /\ found = SelectSeq(processed, InHosts)
           /\ (result.kind = "OkVec") => result.val = found

\* A step keeps the accumulator or appends the result it processed.
C15_GrowsAtEnd ==
    (op = "multiple")
        => \/ found' = found
           \/ /\ processed' # processed
              /\ found' = Append(found, processed'[Len(processed')])

\* C15: in `multiple` the accumulator only grows: every step leaves it as it
\* is or appends the result just processed at its end; it is always the
\* subsequence, in emission order, of the processed results whose hostname is
\* one of hosts; and a collection that is returned is that accumulator.
C15_AccumulatorGrowsInOrder ==
    []C15_IsMatchingSubsequence /\ [][C15_GrowsAtEnd]_vars

C15_Witness ==
    /\ op = "multiple"
    /\ Returned
    /\ Len(processed) = 3
    /\ Skippable(processed[2])
    /\ found = <<processed[1], processed[3]>>
    /\ result = OkVec(found)

\* C16: a call of either operation opens at most one session, and no session
\* is left once the call has returned, whether it returned on a match, on
\* the loop ending, on the deadline or on the session-open error (which
\* opens none); a session exists only while the search is under way.
C16_OneSessionClosedOnReturn ==
    /\ opened <= 1
    /\ alive => (opened = 1 /\ pc \in {"Listening", "Completed", "TimedOut"})
    /\ (pc = "Closed") => ~alive
    /\ (result = ErrOpen) => opened = 0
    /\ (pc \in {"Listening", "Completed", "TimedOut"}) => alive

C16_Witness ==
    /\ pc = "Closed"
    /\ op = "one"
    /\ result.kind = "OkSome"
    /\ opened = 1
    /\ ~alive

\* C17: matching is exact string equality in both operations: `one` returns
\* only a response whose hostname is identical to host_name, and every
\* response `multiple` accumulates or returns has a hostname that is an
\* element of hosts, wherever in hosts it stands; a hostname differing in
\* case only is not accepted.
C17_ExactHostnameMatch ==
    /\ (outcome.kind = "OkSome") => outcome.val[1].hostname = host_name
    /\ (result.kind = "OkSome") => result.val[1].hostname = host_name
    /\ (op = "multiple") =>
          \A i \in 1..Len(found) :
              \E j \in 1..Len(host_names) : found[i].hostname = host_names[j]
    /\ (result.kind = "OkVec") =>
          \A i \in 1..Len(result.val) :
              \E j \in 1..Len(host_names) : result.val[i].hostname = host_names[j]

C17_Witness ==
    /\ op = "one"
    /\ host_name = "a"
    /\ Len(processed) = 2
    /\ processed[1].kind = "Ok" /\ processed[1].hostname = "A"
    /\ processed[2].kind = "Ok" /\ processed[2].hostname = "a"
    /\ result = OkSome(processed[2])

====
